---- MODULE Spec2Model ----
(***************************************************************************)
(* A model of the MCP chatbot client of src/main.py: the Server class      *)
(* (one tool-provider session: initialize, list_tools, execute_tool,       *)
(* cleanup) and ChatSession (start, process_llm_response,                  *)
(* cleanup_servers).                                                       *)
(*                                                                         *)
(* The program runs on one asyncio event loop: a coroutine runs without    *)
(* interruption from one await to the next, so every action below is the   *)
(* code between two suspension points.  The environment (the transport,    *)
(* the provider process, the model's replies) is drawn with \E.            *)
(***************************************************************************)
EXTENDS Integers, Sequences, FiniteSets, TLC

\* ------------------------------------------------------------------ bounds
NServers == 2           \* providers in servers_config.json
MaxRetries == 2         \* largest `retries` argument tried on execute_tool
MaxOps == 4             \* calls the Server driver issues in one run

\* --------------------------------------------------------- program values
DefaultRetries == 2     \* execute_tool(..., retries: int = 2, ...)
DefaultDelay == 1       \* execute_tool(..., delay: float = 1.0)

None == "None"
Servers == 1..NServers
\* cleanup_servers creates one task per server (tasks 1..NServers); task 0 is
\* the main coroutine, which runs cleanup() inline from initialize's handler.
Tasks == 0..NServers
MainTask == CHOOSE t \in Tasks : \A u \in Tasks : t <= u
\* The two async contexts initialize() enters on the exit stack.
Resources == {"stdio_client", "ClientSession"}

VARIABLES
    \* ---- Server objects (Server.__init__)
    session,        \* [Servers -> None or "ClientSession"]   self.session
    exit_stack,     \* [Servers -> Seq(Resources)]            self.exit_stack
    cleanup_lock,   \* [Servers -> BOOLEAN]  self._cleanup_lock.locked()
    \* ---- the running initialize() (main coroutine)
    ipc,            \* "idle","spawn","open","handshake","cleanup","ok","raised"
    isrv,           \* the server being initialized
    itimeout,       \* TRUE when the caller wrapped it in asyncio.wait_for
    ierr,           \* the exception initialize raised, when ipc = "raised"
    \* ---- the running cleanup() of every task
    clpc,           \* [Tasks -> "idle","created","lock","aclose","done"]
    clsrv,          \* [Tasks -> Servers]
    clexc,          \* [Tasks -> exception pending in aclose(), or "none"]
    \* ---- the running execute_tool() (main coroutine)
    xpc,            \* "idle","loop","call","sleep","returned","raised"
    xsrv, xtool, xargs,
    retries, delay, attempt,
    xresult,        \* the value returned / the exception raised
    \* ---- the last list_tools() (main coroutine)
    lres,           \* [exc, val]: the exception raised or the Tool list
    \* ---- the providers and the Server driver
    catalog,        \* [Servers -> Seq(tool)] what each provider exposes
    started,        \* [Servers -> BOOLEAN] initialize() was called
    nops,           \* calls issued so far
    \* ---- ChatSession.start (main coroutine)
    pc,             \* where start() stands
    idx,            \* the server the startup loop is at
    all_tools,      \* the Tool objects gathered at startup
    messages,       \* the message log
    llm_response,   \* the first reply of the turn
    result,         \* what process_llm_response returned
    outcome,        \* "running", or how start() ended: "returned", "raised"
    nturns,         \* user messages read so far
    \* ---- observation of the run (history; the code does not read these)
    entered,        \* [Servers -> SUBSET Resources] contexts ever entered
    exits,          \* [Servers -> [Resources -> Nat]] __aexit__ calls made
    initOk,         \* [Servers -> BOOLEAN] an initialize() has succeeded
    released,       \* [Servers -> BOOLEAN] a cleanup() returned after that
    cleanSinceOpen, \* [Servers -> BOOLEAN] a cleanup() began after the last enter
    iclean,         \* the running initialize() has run cleanup() to its end
    clfailed,       \* [Tasks -> BOOLEAN] a cleanup() raised to its caller
    xcalls,         \* call_tool invocations of the running execute_tool
    xsleeps,        \* the delays execute_tool slept, in order
    xlast,          \* the outcome of the last call_tool invocation
    xstate,         \* Standing of the server when execute_tool was called
    lstate,         \* Standing of the server when list_tools was called
    ltransport,     \* the last list_tools() reached the transport
    replies,        \* the model's replies in the current turn, in order
    executed,       \* the execute_tool calls of the current turn, in order
    \* ---- the entry point that runs the startup
    entry,          \* "start" (ChatSession.start) or "chat" (chatbot_ui.chat)
    \* ---- the running LLMClient.get_response()
    llm_pc,         \* "idle","post","returned","raised"
    llm_messages,   \* the caller's message list (the object passed in)
    llm_all_tools,  \* self.all_tools
    payload,        \* the request body built at lines 263-275
    llm_attempt,    \* `attempt` of the for loop
    backoff,        \* `backoff`
    llm_result,     \* [exc, val]: the exception raised or the text returned
    llm_posts,      \* history: the responses to the requests sent, in order
    llm_sleeps,     \* history: the time.sleep() waits, in order
    llm_called,     \* history: the message list as it was at the call
    \* ---- the argument coercion of process_llm_response, run on its own
    c_pc,           \* "off","call","done"
    c_schema,       \* `schema`: the input schema of the tool found
    c_raw_args,     \* `raw_args` as the directive holds them
    c_args,         \* `raw_args` as they are passed to execute_tool
    \* ---- get_knowledge_base() of src/server.py, run on its own
    kb_pc,          \* "off","call","done"
    kb_file,        \* what open() and json.load() meet at data/kb.json
    kb_result       \* [exc, val]: the exception raised or the text returned

srvVars == <<session, exit_stack, cleanup_lock>>
initVars == <<ipc, isrv, itimeout, ierr, iclean>>
clVars == <<clpc, clsrv, clexc, clfailed>>
execVars == <<xpc, xsrv, xtool, xargs, retries, delay, attempt, xresult,
              xcalls, xsleeps, xlast, xstate>>
listVars == <<lres, lstate, ltransport>>
histVars == <<entered, exits, initOk, released, cleanSinceOpen>>
drvVars == <<catalog, started, nops>>
chatVars == <<pc, idx, all_tools, messages, llm_response, result, outcome,
              nturns, replies, executed>>
llmVars == <<llm_pc, llm_messages, llm_all_tools, payload, llm_attempt,
             backoff, llm_result, llm_posts, llm_sleeps, llm_called>>
coerceVars == <<c_pc, c_schema, c_raw_args, c_args>>
kbVars == <<kb_pc, kb_file, kb_result>>
vars == <<srvVars, initVars, clVars, execVars, listVars, histVars, drvVars,
          chatVars, entry, llmVars, coerceVars, kbVars>>

\* Where a server stands in its life cycle, from the calls made on it so far:
\* "init" from a successful initialize() until a cleanup() returns.
Standing(s) == IF initOk[s] /\ ~released[s] THEN "init" ELSE "uninit"

\* ------------------------------------------------------------ Server.cleanup
\* asyncio.Lock.acquire: proceeds (without suspending) only while the lock
\* is free.
LockNeverHeld(s) == TRUE
LockFree(s) == ~cleanup_lock[s]

\* How the __aexit__ of a transport context can end.
ExitOutcomes == {"ok", "Exception"}

\* `except Exception as e: logging.error(...)`: cleanup() swallows it.
NeverLogged(exc) == FALSE
Logged(exc) == exc = "Exception"

\* What cleanup() leaves in self.session once aclose() is over: the reset of
\* line 184 is skipped when aclose() raised (the handler only logs).
SessionAfterCleanup(old, exc) == IF exc = "none" THEN None ELSE old

\* AsyncExitStack.aclose() pops the callbacks last-in first-out and awaits
\* each __aexit__; what is left of the stack after one pop:
PopTop(stack) == SubSeq(stack, 1, Len(stack) - 1)

\* aclose() is over with `exc` pending: the try block ends or the handler
\* logs, the lock is released and cleanup() returns, all without an await.
CleanupLeave(t, s, exc) ==
    /\ session' = [session EXCEPT ![s] = SessionAfterCleanup(@, exc)]
    /\ cleanup_lock' = [cleanup_lock EXCEPT ![s] = FALSE]
    /\ clpc' = [clpc EXCEPT ![t] = "done"]
    /\ clfailed' = [clfailed EXCEPT ![t] = exc # "none" /\ ~Logged(exc)]
    /\ released' = [released EXCEPT ![s] = TRUE]

\* Task t holds the lock: aclose() on an empty stack does not suspend;
\* otherwise the task suspends in the first __aexit__.
CleanupEnter(t, s) ==
    IF exit_stack[s] = <<>>
    THEN CleanupLeave(t, s, "none")
    ELSE /\ cleanup_lock' = [cleanup_lock EXCEPT ![s] = TRUE]
         /\ clpc' = [clpc EXCEPT ![t] = "aclose"]
         /\ UNCHANGED <<session, clfailed, released>>

\* cleanup() is called by task t: `async with self._cleanup_lock`.
CleanupCall(t, s) ==
    /\ clsrv' = [clsrv EXCEPT ![t] = s]
    /\ clexc' = [clexc EXCEPT ![t] = "none"]
    /\ cleanSinceOpen' = [cleanSinceOpen EXCEPT ![s] = TRUE]
    /\ IF LockFree(s)
       THEN CleanupEnter(t, s)
       ELSE /\ clpc' = [clpc EXCEPT ![t] = "lock"]
            /\ UNCHANGED <<session, cleanup_lock, clfailed, released>>

\* A task waiting for the lock gets it.
ClAcquire(t) ==
    /\ clpc[t] = "lock"
    /\ LockFree(clsrv[t])
    /\ CleanupEnter(t, clsrv[t])
    /\ UNCHANGED <<exit_stack, clsrv, clexc, initVars, execVars, listVars,
                   entered, exits, initOk, cleanSinceOpen, drvVars, entry, coerceVars, kbVars, llmVars, chatVars>>

\* One __aexit__ of aclose() ends: it may have raised; the stack goes on with
\* the other contexts and raises the pending exception once it is empty.
ClExit(t) ==
    LET s == clsrv[t]
        r == exit_stack[s][Len(exit_stack[s])]
    IN  /\ clpc[t] = "aclose"
        /\ \A u \in Tasks : clpc[u] # "created"   \* ready tasks run first
        /\ exit_stack[s] # <<>>
        /\ exit_stack' = [exit_stack EXCEPT ![s] = PopTop(exit_stack[s])]
        /\ exits' = [exits EXCEPT ![s][r] = @ + 1]
        /\ \E o \in ExitOutcomes :
             LET exc == IF o = "ok" THEN clexc[t] ELSE o IN
             /\ clexc' = [clexc EXCEPT ![t] = exc]
             /\ IF PopTop(exit_stack[s]) = <<>>
                THEN CleanupLeave(t, s, exc)
                ELSE UNCHANGED <<session, cleanup_lock, clpc, clfailed, released>>
        /\ UNCHANGED <<clsrv, initVars, execVars, listVars, entered, initOk,
                       cleanSinceOpen, drvVars, entry, coerceVars, kbVars, llmVars, chatVars>>

\* --------------------------------------------------------- Server.initialize
\* command = shutil.which("npx") if config["command"] == "npx" else config["command"]
ResolveCommand(configured, which) ==
    IF configured = "npx" THEN which ELSE configured

\* initialize() is called and runs to its first await.
InitializeCall(s, command, timeout) ==
    /\ isrv' = s
    /\ itimeout' = timeout
    /\ iclean' = FALSE
    /\ started' = [started EXCEPT ![s] = TRUE]
    /\ IF command = None
       THEN ipc' = "raised" /\ ierr' = "ValueError"
       ELSE ipc' = "spawn" /\ ierr' = "none"

\* How an await inside initialize() can end: asyncio.wait_for cancels the
\* coroutine at its suspension point when the caller's timeout expires.
AwaitOutcomes(timeout) ==
    {"ok", "error"} \cup (IF timeout THEN {"cancel"} ELSE {})

\* `except Exception`: what initialize() does with the way an await ended.
\* CancelledError is a BaseException: the handler does not see it.
Handled(how) == how = "error"

\* One awaited step of the try block ends: entering context r (or the
\* handshake and `self.session = session` when r = None), then on to `next`.
InitStep(at, r, next) ==
    /\ ipc = at
    /\ \E o \in AwaitOutcomes(itimeout) :
         IF o = "ok"
         THEN /\ ipc' = next
              /\ IF r = None
                 THEN /\ session' = [session EXCEPT ![isrv] = "ClientSession"]
                      /\ initOk' = [initOk EXCEPT ![isrv] = TRUE]
                      /\ released' = [released EXCEPT ![isrv] = FALSE]
                      /\ UNCHANGED <<exit_stack, entered, cleanSinceOpen>>
                 ELSE /\ exit_stack' = [exit_stack EXCEPT ![isrv] = Append(@, r)]
                      /\ entered' = [entered EXCEPT ![isrv] = @ \cup {r}]
                      /\ cleanSinceOpen' = [cleanSinceOpen EXCEPT ![isrv] = FALSE]
                      /\ UNCHANGED <<session, initOk, released>>
              /\ UNCHANGED <<ierr, cleanup_lock, clVars>>
         ELSE IF Handled(o)
         THEN /\ ipc' = "cleanup"
              /\ CleanupCall(MainTask, isrv)
              /\ UNCHANGED <<exit_stack, entered, initOk, ierr>>
         ELSE /\ ipc' = "raised"
              /\ ierr' = "CancelledError"
              /\ UNCHANGED <<srvVars, entered, initOk, released,
                             cleanSinceOpen, clVars>>
    /\ UNCHANGED <<isrv, itimeout, iclean, execVars, listVars, exits, drvVars, entry, coerceVars, kbVars, llmVars,
                   chatVars>>

ISpawn == InitStep("spawn", "stdio_client", "open")
IOpen == InitStep("open", "ClientSession", "handshake")
IHandshake == InitStep("handshake", None, "ok")

\* The handler's cleanup() has returned: `raise`.
IRaise ==
    /\ ipc = "cleanup"
    /\ clpc[MainTask] = "done"
    /\ ipc' = "raised"
    /\ ierr' = "Exception"
    /\ iclean' = TRUE
    /\ clpc' = [clpc EXCEPT ![MainTask] = "idle"]
    /\ UNCHANGED <<srvVars, isrv, itimeout, clsrv, clexc, clfailed, execVars,
                   listVars, histVars, drvVars, entry, coerceVars, kbVars, llmVars, chatVars>>

\* --------------------------------------------------------- Server.list_tools
\* Tool.__init__
Tool(name, description, input_schema) ==
    [name |-> name, description |-> description, input_schema |-> input_schema]

\* What the transport's list_tools() yields when iterated: (field, value)
\* pairs, one of them ("tools", [...]).
tools_response(s) ==
    << <<"meta", <<>> >>, <<"nextCursor", <<>> >>, <<"tools", catalog[s]>> >>

\* tools.extend(Tool(tool.name, tool.description, tool.inputSchema) for tool in item[1])
RECURSIVE ToolObjects(_)
ToolObjects(descs) ==
    IF descs = <<>> THEN <<>>
    ELSE <<Tool(Head(descs).name, Head(descs).description, Head(descs).inputSchema)>>
         \o ToolObjects(Tail(descs))

\* for item in tools_response: if isinstance(item, tuple) and item[0] == "tools"
RECURSIVE CollectTools(_)
CollectTools(items) ==
    IF items = <<>> THEN <<>>
    ELSE (IF Head(items)[1] = "tools" THEN ToolObjects(Head(items)[2]) ELSE <<>>)
         \o CollectTools(Tail(items))

\* `if not self.session: raise RuntimeError(...)`
NotInitialized(s) == session[s] = None

\* list_tools(): the exception it raises or the list it returns.
list_tools(s) ==
    IF NotInitialized(s)
    THEN [exc |-> "RuntimeError", val |-> <<>>]
    ELSE [exc |-> None, val |-> CollectTools(tools_response(s))]

\* ------------------------------------------------------- Server.execute_tool
NoValue == [kind |-> "None"]
CallResult(s, tool, args) ==
    [kind |-> "result", server |-> s, tool |-> tool, args |-> args]

\* execute_tool() is called: the guard of line 156, then `attempt = 0`.
ExecuteToolCall(s, tool, args, r, d) ==
    /\ xsrv' = s /\ xtool' = tool /\ xargs' = args
    /\ retries' = r /\ delay' = d
    /\ attempt' = 0
    /\ xcalls' = 0 /\ xsleeps' = <<>> /\ xlast' = "none"
    /\ xstate' = Standing(s)
    /\ IF NotInitialized(s)
       THEN xpc' = "raised" /\ xresult' = [exc |-> "RuntimeError", val |-> NoValue]
       ELSE xpc' = "loop" /\ xresult' = [exc |-> None, val |-> NoValue]

\* `while attempt < retries`
LoopGuard(a, r) == a < r

\* The handler of lines 167-177 for a call that failed with exception e.
XFail(e) ==
    /\ attempt' = attempt + 1
    /\ xlast' = e
    /\ IF LoopGuard(attempt + 1, retries)
       THEN xpc' = "sleep" /\ UNCHANGED xresult
       ELSE xpc' = "raised" /\ xresult' = [exc |-> e, val |-> NoValue]

\* The head of the loop: leave it (the function ends without a return
\* statement and yields None), or issue self.session.call_tool(...).
XLoop ==
    /\ xpc = "loop"
    /\ IF ~LoopGuard(attempt, retries)
       THEN /\ xpc' = "returned"
            /\ xresult' = [exc |-> None, val |-> NoValue]
            /\ UNCHANGED <<attempt, xcalls, xlast>>
       ELSE IF session[xsrv] = None
       THEN \* self.session was reset meanwhile: None has no call_tool
            /\ XFail("AttributeError")
            /\ UNCHANGED xcalls
       ELSE /\ xpc' = "call"
            /\ xcalls' = xcalls + 1
            /\ UNCHANGED <<attempt, xlast, xresult>>
    /\ UNCHANGED <<xsrv, xtool, xargs, retries, delay, xsleeps, xstate, srvVars,
                   initVars, clVars, listVars, histVars, drvVars, entry, coerceVars, kbVars, llmVars, chatVars>>

\* How a call_tool request can end.
CallOutcomes == {"ok", "Exception"}

\* The awaited call_tool ends: `return result`, or the handler.
XCallDone ==
    /\ xpc = "call"
    /\ \E o \in CallOutcomes :
         IF o = "ok"
         THEN /\ xpc' = "returned"
              /\ xresult' = [exc |-> None, val |-> CallResult(xsrv, xtool, xargs)]
              /\ xlast' = "ok"
              /\ UNCHANGED attempt
         ELSE XFail(o)
    /\ UNCHANGED <<xsrv, xtool, xargs, retries, delay, xcalls, xsleeps, xstate,
                   srvVars, initVars, clVars, listVars, histVars, drvVars, entry, coerceVars, kbVars, llmVars, chatVars>>

\* `await asyncio.sleep(delay)` is over: back to the head of the loop.
XWake ==
    /\ xpc = "sleep"
    /\ xsleeps' = Append(xsleeps, delay)
    /\ xpc' = "loop"
    /\ UNCHANGED <<xsrv, xtool, xargs, retries, delay, attempt, xresult, xcalls,
                   xlast, xstate, srvVars, initVars, clVars, listVars, histVars,
                   drvVars, entry, coerceVars, kbVars, llmVars, chatVars>>

\* ------------------------------------------------------------- the providers
\* The declared type of argument "q" differs from provider to provider, so
\* that a schema tells which provider it came from.
TypeAt(s) == <<"object", "array", "string">>[((s - 1) % 3) + 1]
PropertiesAt(s, n) ==
    IF n = "lookup" THEN [a \in {"q"} |-> [type |-> TypeAt(s)]]
    ELSE [a \in {"city"} |-> [type |-> "string"]]
ToolAt(s, n) ==
    [name |-> n, description |-> <<n, s>>,
     inputSchema |-> [properties |-> PropertiesAt(s, n)]]
CatalogChoices(s) ==
    { <<>>, <<ToolAt(s, "get_weather"), ToolAt(s, "lookup")>> }

\* ------------------------------------------------------------ JSON and text
\* Python values as json.loads yields them.
JInt(n) == [type |-> "int", v |-> n]
JStr(x) == [type |-> "str", v |-> x]
JList(xs) == [type |-> "list", v |-> xs]
JDict(f) == [type |-> "dict", v |-> f]

\* The texts the model replies with and the texts of directive arguments.
TxtPlain == "It is sunny in Paris."
TxtNumber == "42"
TxtLacking == "{\"tool\": \"lookup\"}"
TxtLookup == "{\"tool\": \"lookup\", \"arguments\": {\"q\": \"not json\"}}"
TxtUnknown == "{\"tool\": \"translate\", \"arguments\": {}}"
Replies == {TxtPlain, TxtNumber, TxtLacking, TxtLookup, TxtUnknown}

\* json.loads on these texts: the value, or err for JSONDecodeError.
Parsed(v) == [err |-> FALSE, value |-> v]
json_loads(text) ==
    CASE text = TxtNumber -> Parsed(JInt(42))
      [] text = "\"hello\"" -> Parsed(JStr("hello"))
      [] text = TxtLacking -> Parsed(JDict([tool |-> JStr("lookup")]))
      [] text = TxtLookup ->
           Parsed(JDict([tool |-> JStr("lookup"),
                         arguments |-> JDict([q |-> JStr("not json")])]))
      [] text = TxtUnknown ->
           Parsed(JDict([tool |-> JStr("translate"), arguments |-> JDict(<<>>)]))
      [] text = "[1, 2, 3]" -> Parsed(JList(<<JInt(1), JInt(2), JInt(3)>>))
      [] text = "{\"a\": 1}" -> Parsed(JDict([a |-> JInt(1)]))
      [] text = "5" -> Parsed(JInt(5))
      [] text = "{\"q\": \"not json\"}" -> Parsed(JDict([q |-> JStr("not json")]))
      [] text = "{}" -> Parsed(JDict(<<>>))
      [] OTHER -> [err |-> TRUE, value |-> JStr(text)]

\* Python's `key in value`: key membership for a dict, element equality for
\* a list, substring for a str (none of the strings used here holds "tool"
\* or "arguments"), TypeError for a number.
Contains(key, value) ==
    CASE value.type = "dict" -> IF key \in DOMAIN value.v THEN "True" ELSE "False"
      [] value.type = "list" ->
           IF \E i \in 1..Len(value.v) : value.v[i].type = "str" /\ value.v[i].v = key
           THEN "True" ELSE "False"
      [] value.type = "str" -> "False"
      [] OTHER -> "TypeError"

\* A message of the log: {"role": ..., "content": ...}.
Msg(role, content) == [role |-> role, content |-> content]

\* What process_llm_response returns (a str or None).
RText(text) == [kind |-> "text", text |-> text]
RNone == [kind |-> "None"]
RNoServer(name) == [kind |-> "no_server", name |-> name]
RToolResult(res) == [kind |-> "tool_result", result |-> res]

\* ---------------------------------------------------- LLMClient.get_response
max_retries == 5        \* max_retries = 5
InitialBackoff == 2     \* backoff = 2

\* Tool.to_api_dict
to_api_dict(tool) ==
    [type |-> "function",
     function |-> [name |-> tool.name, description |-> tool.description,
                   parameters |-> tool.input_schema]]

\* Lines 263-275: the request body.  payload["messages"] is the caller's list
\* itself; the `tools` argument is not read, self.all_tools is.
BuildPayload(msgs, tools, self_all_tools) ==
    LET base == [messages |-> msgs, model |-> "llama-3.1-8b-instant",
                 temperature |-> "0.7", max_tokens |-> 4096, top_p |-> 1,
                 stream |-> FALSE]
    IN  IF self_all_tools # <<>>
        THEN [k \in DOMAIN base \cup {"tools", "tool_choice"} |->
                IF k = "tools" THEN self_all_tools
                ELSE IF k = "tool_choice" THEN "auto" ELSE base[k]]
        ELSE base

\* The caller's list once the request body has been built and posted:
\* nothing is appended to it or removed from it.
LogWithoutOldest(msgs) == IF msgs = <<>> THEN msgs ELSE Tail(msgs)
LogAfterPosting(msgs) == msgs

\* What the endpoint can answer to one request.
HttpDate == "Wed, 04 Nov 2026 07:28:00 GMT"
RetryAfterHeaders == {None, "7", HttpDate}
ArgsLookup == "{\"q\": \"not json\"}"
Call(name, arguments) == [function |-> [name |-> name, arguments |-> arguments]]
ChoiceText == [content |-> TxtPlain]
ChoiceCalls ==
    [content |-> "Let me look that up.",
     tool_calls |-> <<Call("lookup", ArgsLookup), Call("translate", "{}")>>]
ChoiceBadArgs == [content |-> None, tool_calls |-> <<Call("lookup", "{\"q\": ")>>]
ChoiceNoCalls == [content |-> TxtPlain, tool_calls |-> <<>>]
ChoiceNull == [content |-> None]
ChoiceBare == [role |-> "assistant"]
Choices == {ChoiceText, ChoiceCalls, ChoiceBadArgs, ChoiceNoCalls, ChoiceNull, ChoiceBare}
Bodies == {[choices |-> <<[message |-> c]>>] : c \in Choices}
             \cup {[error |-> "message"]}
ErrorBody == [error |-> "message"]
Response(status, retry_after, body) ==
    [kind |-> "response", status |-> status, retry_after |-> retry_after,
     body |-> body]
Responses ==
    {Response(429, h, ErrorBody) : h \in RetryAfterHeaders}
      \cup {Response(200, None, b) : b \in Bodies}
      \cup {Response(500, None, ErrorBody), [kind |-> "ConnectError"]}

\* `if response.status_code == 429`
RateLimitedOrWorse(response) == response.status >= 429
RateLimited(response) == response.status = 429

\* int(x) on a header text: the number it writes, or ValueError.
IntOf(text) ==
    CASE text = "7" -> [err |-> FALSE, n |-> 7]
      [] OTHER -> [err |-> TRUE, n |-> 0]

\* retry_after = int(response.headers.get("retry-after", backoff))
RetryAfter(response, current_backoff) ==
    IF response.retry_after = None
    THEN [err |-> FALSE, n |-> current_backoff]
    ELSE IntOf(response.retry_after)

\* json.dumps({"tool": name, "arguments": args}) on the values met here.
json_dumps_directive(name, args) ==
    CASE name = "lookup" /\ args.type = "dict" /\ DOMAIN args.v = {"q"} -> TxtLookup
      [] name = "translate" /\ args.type = "dict" /\ DOMAIN args.v = {} -> TxtUnknown
      [] OTHER -> "{\"tool\": ..., \"arguments\": ...}"

\* `if "tool_calls" in choice and choice["tool_calls"]`
HasToolCallsNever(choice) == FALSE
HasToolCalls(choice) ==
    "tool_calls" \in DOMAIN choice /\ choice.tool_calls # <<>>

\* Lines 294-314 on a reply whose status is a success: what is returned or
\* raised.
MapReply(data) ==
    IF "choices" \notin DOMAIN data
    THEN [exc |-> "KeyError", val |-> None]
    ELSE
    LET choice == data.choices[1].message IN
    IF HasToolCalls(choice)
    THEN LET call == choice.tool_calls[1].function
             args == json_loads(call.arguments)
         IN  IF args.err
             THEN [exc |-> "JSONDecodeError", val |-> None]
             ELSE [exc |-> None, val |-> json_dumps_directive(call.name, args.value)]
    ELSE IF "content" \in DOMAIN choice /\ choice.content # None
    THEN [exc |-> None, val |-> choice.content]
    ELSE [exc |-> "RuntimeError", val |-> None]

\* get_response(messages, tools) is called: the request body, max_retries,
\* backoff, and the loop is entered.
LLMCall ==
    /\ llm_pc \in {"idle", "returned", "raised"}
    /\ \E msgs \in {<<Msg("system", RText("prompt"))>>,
                    <<Msg("system", RText("prompt")), Msg("user", RText("hello"))>>},
          tools \in {<<>>, <<"tool">>} :
         /\ llm_messages' = msgs
         /\ llm_called' = msgs
         /\ payload' = BuildPayload(msgs, tools, llm_all_tools)
    /\ llm_pc' = "post"
    /\ llm_attempt' = 0
    /\ backoff' = InitialBackoff
    /\ llm_result' = [exc |-> None, val |-> None]
    /\ llm_posts' = <<>> /\ llm_sleeps' = <<>>
    /\ UNCHANGED <<srvVars, initVars, clVars, execVars, listVars, histVars,
                   drvVars, chatVars, entry, coerceVars, kbVars, llm_all_tools>>

\* `for attempt in range(max_retries)`: the loop goes on while this holds.
InRangeInclusive(a) == a <= max_retries
InRange(a) == a < max_retries

\* One turn of the loop: the request is posted and answered.
LLMPost ==
    /\ llm_pc = "post"
    /\ \E response \in Responses :
         /\ llm_posts' = Append(llm_posts, response)
         /\ llm_messages' = LogAfterPosting(llm_messages)
         /\ IF response.kind # "response"
            THEN \* `except Exception`: raise
                 /\ llm_pc' = "raised"
                 /\ llm_result' = [exc |-> response.kind, val |-> None]
                 /\ UNCHANGED <<llm_attempt, backoff, llm_sleeps>>
            ELSE IF RateLimited(response)
            THEN LET retry_after == RetryAfter(response, backoff) IN
                 IF retry_after.err
                 THEN /\ llm_pc' = "raised"
                      /\ llm_result' = [exc |-> "ValueError", val |-> None]
                      /\ UNCHANGED <<llm_attempt, backoff, llm_sleeps>>
                 ELSE /\ llm_sleeps' = Append(llm_sleeps, retry_after.n)
                      /\ backoff' = backoff * 2
                      /\ llm_attempt' = llm_attempt + 1
                      /\ IF InRange(llm_attempt + 1)
                         THEN llm_pc' = "post" /\ UNCHANGED llm_result
                         ELSE /\ llm_pc' = "raised"
                              /\ llm_result' = [exc |-> "RuntimeError", val |-> None]
            ELSE IF response.status # 200
            THEN \* raise_for_status(): HTTPStatusError, re-raised twice
                 /\ llm_pc' = "raised"
                 /\ llm_result' = [exc |-> "HTTPStatusError", val |-> None]
                 /\ UNCHANGED <<llm_attempt, backoff, llm_sleeps>>
            ELSE /\ llm_result' = MapReply(response.body)
                 /\ llm_pc' = IF MapReply(response.body).exc = None
                              THEN "returned" ELSE "raised"
                 /\ UNCHANGED <<llm_attempt, backoff, llm_sleeps>>
    /\ UNCHANGED <<srvVars, initVars, clVars, execVars, listVars, histVars,
                   drvVars, chatVars, entry, coerceVars, kbVars, llm_all_tools, payload, llm_called>>

\* ------------------------------------------ ChatSession.process_llm_response

\* `tool.name == name` over `for tool in tools`: the first tool so named.
MatchesAnyName(tools, name) == 1..Len(tools)
Matches(tools, name) ==
    {j \in 1..Len(tools) : name.type = "str" /\ tools[j].name = name.v}
FirstMatch(tools, name) ==
    CHOOSE j \in Matches(tools, name) : \A k \in Matches(tools, name) : j <= k

\* The search of lines 370-380: the servers in the order of self.servers,
\* from server i on; the first whose list_tools() holds the name wins.
RECURSIVE ResolveBackwards(_, _)
ResolveBackwards(i, name) ==
    IF i > NServers THEN [kind |-> "none"]
    ELSE LET l == list_tools(NServers + 1 - i) IN
         IF l.exc # None THEN [kind |-> "raise", exc |-> l.exc]
         ELSE IF Matches(l.val, name) # {}
         THEN [kind |-> "found", server |-> NServers + 1 - i,
               schema |-> l.val[FirstMatch(l.val, name)].input_schema]
         ELSE ResolveBackwards(i + 1, name)

RECURSIVE Resolve(_, _)
Resolve(i, name) ==
    IF i > NServers THEN [kind |-> "none"]
    ELSE LET l == list_tools(i) IN
         IF l.exc # None THEN [kind |-> "raise", exc |-> l.exc]
         ELSE IF Matches(l.val, name) # {}
         THEN [kind |-> "found", server |-> i,
               schema |-> l.val[FirstMatch(l.val, name)].input_schema]
         ELSE Resolve(i + 1, name)

\* expected = props.get(arg_name, {}).get("type")
Expected(props, arg_name) ==
    IF arg_name \in DOMAIN props /\ "type" \in DOMAIN props[arg_name]
    THEN props[arg_name].type ELSE None

\* Lines 387-392 for one argument.
CoerceArgEmptyObject(expected, arg_value) ==
    IF expected \in {"object", "array"} /\ arg_value.type = "str"
    THEN LET p == json_loads(arg_value.v) IN
         IF p.err THEN JDict(<<>>) ELSE p.value
    ELSE arg_value

CoerceArg(expected, arg_value) ==
    IF expected \in {"object", "array"} /\ arg_value.type = "str"
    THEN LET p == json_loads(arg_value.v) IN
         IF p.err
         THEN (IF expected = "object" THEN JDict(<<>>) ELSE JList(<<>>))
         ELSE p.value
    ELSE arg_value

\* Lines 383-392: props = schema.get("properties", {}), then every argument.
Coerce(schema, raw_args) ==
    LET props == IF "properties" \in DOMAIN schema THEN schema.properties ELSE <<>>
    IN  [a \in DOMAIN raw_args |-> CoerceArg(Expected(props, a), raw_args[a])]

\* process_llm_response up to its first effect: what it returns or raises,
\* or the execute_tool call it makes.
Process(text) ==
    LET p == json_loads(text) IN
    IF p.err THEN [kind |-> "return", value |-> RText(text)]
    ELSE
    LET tool_call == p.value IN
    IF Contains("tool", tool_call) = "TypeError"
    THEN [kind |-> "raise", exc |-> "TypeError"]
    ELSE IF Contains("tool", tool_call) = "False"
            \/ Contains("arguments", tool_call) = "False"
    THEN [kind |-> "return", value |-> RNone]
    ELSE IF tool_call.type # "dict"
    THEN [kind |-> "raise", exc |-> "TypeError"]
    ELSE
    LET name == tool_call.v.tool
        raw_args == tool_call.v.arguments
        found == Resolve(1, name)
    IN  IF found.kind = "raise" THEN [kind |-> "raise", exc |-> found.exc]
        ELSE IF found.kind = "none"
        THEN [kind |-> "return", value |-> RNoServer(name.v)]
        ELSE IF raw_args.type # "dict"
        THEN [kind |-> "raise", exc |-> "AttributeError"]
        ELSE [kind |-> "execute", server |-> found.server, name |-> name.v,
              args |-> Coerce(found.schema, raw_args.v)]

\* ---------------------------------------------------------- ChatSession.start
MaxTurns == 1           \* user messages read in one run


RECURSIVE Names(_)
Names(tools) == IF tools = <<>> THEN <<>> ELSE <<Head(tools).name>> \o Names(Tail(tools))

\* Lines 411-414: all_tools.extend(await server.list_tools()) for every server.
RECURSIVE GatherTools(_)
GatherTools(i) ==
    IF i > NServers THEN <<>> ELSE list_tools(i).val \o GatherTools(i + 1)

\* `result != llm_response`: the two formatted observations and None differ
\* from every reply; the returned reply does not.
DiffersNever(res, reply) == FALSE
Differs(res, reply) == ~(res.kind = "text" /\ res.text = reply)

\* Lines 457-467 up to the next model request.
AppendedOverLast(log, reply, res) ==
    SubSeq(log, 1, Len(log) - 1) \o <<Msg("assistant", RText(reply)), Msg("system", res)>>
Appended(log, reply, res) ==
    IF Differs(res, reply)
    THEN log \o <<Msg("assistant", RText(reply)), Msg("system", res)>>
    ELSE Append(log, Msg("assistant", RText(reply)))

\* chat() of chatbot_ui.py runs every initialize() under asyncio.wait_for,
\* start() does not.
UnderWaitFor(e) == e = "chat"

\* for server in self.servers: await server.initialize()
ChatInitialize ==
    /\ pc = "init"
    /\ \E configured \in {"npx", "python"}, which \in {None, "/usr/bin/npx"} :
         InitializeCall(idx, ResolveCommand(configured, which), UnderWaitFor(entry))
    /\ pc' = "init_wait"
    /\ UNCHANGED <<srvVars, clVars, execVars, listVars, histVars, catalog, entry, coerceVars, kbVars, llmVars, nops,
                   idx, all_tools, messages, llm_response, result, outcome,
                   nturns, replies, executed>>

\* initialize() returned: on to the next server, or to the tool listing and
\* messages = [system message]; start() enters its loop, chat() goes on to
\* draw its page.
ChatInitialized ==
    /\ pc = "init_wait" /\ ipc = "ok"
    /\ ipc' = "idle"
    /\ IF idx < NServers
       THEN /\ idx' = idx + 1 /\ pc' = "init"
            /\ UNCHANGED <<all_tools, messages>>
       ELSE /\ pc' = IF entry = "chat" THEN "page" ELSE "input"
            /\ all_tools' = GatherTools(1)
            /\ messages' = <<Msg("system", [kind |-> "prompt",
                                            tools |-> Names(GatherTools(1))])>>
            /\ UNCHANGED idx
    /\ UNCHANGED <<srvVars, isrv, itimeout, ierr, iclean, clVars, execVars,
                   listVars, histVars, drvVars, entry, coerceVars, kbVars, llmVars, llm_response, result, outcome,
                   nturns, replies, executed>>

\* initialize() raised (under wait_for: or timed out): start() logs, awaits
\* cleanup_servers() and returns through its finally block; the handlers of
\* chat() await cleanup_servers() and raise into the handler of line 104,
\* which awaits cleanup_servers() again and returns.
ChatInitFailed ==
    /\ pc = "init_wait" /\ ipc = "raised"
    /\ ipc' = "idle"
    /\ pc' = "handler"
    /\ UNCHANGED <<srvVars, isrv, itimeout, ierr, iclean, clVars, execVars,
                   listVars, histVars, drvVars, entry, coerceVars, kbVars, llmVars, idx, all_tools, messages,
                   llm_response, result, outcome, nturns, replies, executed>>

\* user_input = input("You: "): quit/exit (or Ctrl-C) leaves the loop, any
\* other line is appended and the model is asked.
ChatInput ==
    /\ pc = "input"
    /\ \/ /\ pc' = "finally" /\ outcome' = "returned"
          /\ UNCHANGED <<messages, nturns, replies, executed>>
       \/ /\ nturns < MaxTurns
          /\ messages' = Append(messages, Msg("user", RText("what is the weather?")))
          /\ nturns' = nturns + 1
          /\ replies' = <<>> /\ executed' = <<>>
          /\ pc' = "llm1"
          /\ UNCHANGED outcome
    /\ UNCHANGED <<srvVars, initVars, clVars, execVars, listVars, histVars,
                   drvVars, entry, coerceVars, kbVars, llmVars, idx, all_tools, llm_response, result>>

\* Where an exception raised inside the loop goes: no handler of start()
\* takes it, so the `finally` of line 473 runs and the exception goes on.
OnRaiseSkipsFinally == "done"
OnRaiseBackToInput == "input"
OnRaise == "finally"

\* get_response raises (lines 452 and 461): the exception leaves start()
\* through its finally block.
ChatModelFails ==
    /\ pc \in {"llm1", "llm2"}
    /\ pc' = OnRaise /\ outcome' = "raised"
    /\ UNCHANGED <<srvVars, initVars, clVars, execVars, listVars, histVars,
                   drvVars, entry, coerceVars, kbVars, llmVars, idx, all_tools, messages, llm_response, result,
                   nturns, replies, executed>>

\* Lines 452-467: the first reply of the turn and process_llm_response on
\* it, up to the execute_tool call, the next model request or the end of
\* the turn.
ChatFirstReply ==
    /\ pc = "llm1"
    /\ \E reply \in Replies :
         LET p == Process(reply) IN
         /\ llm_response' = reply
         /\ replies' = Append(replies, reply)
         /\ IF p.kind = "raise"
            THEN /\ pc' = OnRaise /\ outcome' = "raised"
                 /\ UNCHANGED <<messages, result, execVars, executed>>
            ELSE IF p.kind = "execute"
            THEN /\ ExecuteToolCall(p.server, p.name, p.args, DefaultRetries, DefaultDelay)
                 /\ executed' = Append(executed, [server |-> p.server,
                                                  name |-> p.name, args |-> p.args])
                 /\ pc' = "exec_wait"
                 /\ UNCHANGED <<messages, result, outcome>>
            ELSE /\ result' = p.value
                 /\ messages' = Appended(messages, reply, p.value)
                 /\ pc' = IF Differs(p.value, reply) THEN "llm2" ELSE "input"
                 /\ UNCHANGED <<outcome, execVars, executed>>
    /\ UNCHANGED <<srvVars, initVars, clVars, listVars, histVars, drvVars, entry, coerceVars, kbVars, llmVars, idx,
                   all_tools, nturns>>

\* execute_tool returned: result = f"Tool execution result: {result}", then
\* lines 457-459.
ChatToolReturned ==
    /\ pc = "exec_wait" /\ xpc = "returned"
    /\ xpc' = "idle"
    /\ result' = RToolResult(xresult.val)
    /\ messages' = Appended(messages, llm_response, RToolResult(xresult.val))
    /\ pc' = "llm2"
    /\ UNCHANGED <<srvVars, initVars, clVars, xsrv, xtool, xargs, retries, delay,
                   attempt, xresult, xcalls, xsleeps, xlast, xstate, listVars,
                   histVars, drvVars, entry, coerceVars, kbVars, llmVars, idx, all_tools, llm_response, outcome,
                   nturns, replies, executed>>

\* execute_tool raised: process_llm_response has no handler for it (only
\* for json.JSONDecodeError), nor has the loop of start().
ChatToolRaised ==
    /\ pc = "exec_wait" /\ xpc = "raised"
    /\ xpc' = "idle"
    /\ pc' = OnRaise /\ outcome' = "raised"
    /\ UNCHANGED <<srvVars, initVars, clVars, xsrv, xtool, xargs, retries, delay,
                   attempt, xresult, xcalls, xsleeps, xlast, xstate, listVars,
                   histVars, drvVars, entry, coerceVars, kbVars, llmVars, idx, all_tools, messages, llm_response,
                   result, nturns, replies, executed>>

\* Where the turn goes once the second reply is appended (line 465): the
\* body of `while True` is over, back to input(); the reply is not processed.
AfterFinalReplyAsksAgain == "llm1"
AfterFinalReply == "input"

\* Lines 461-465: the second reply of the turn is appended as it is.
ChatFinalReply ==
    /\ pc = "llm2"
    /\ \E final_response \in Replies :
         /\ messages' = Append(messages, Msg("assistant", RText(final_response)))
         /\ replies' = Append(replies, final_response)
    /\ pc' = AfterFinalReply
    /\ UNCHANGED <<srvVars, initVars, clVars, execVars, listVars, histVars,
                   drvVars, entry, coerceVars, kbVars, llmVars, idx, all_tools, llm_response, result, outcome,
                   nturns, executed>>

\* cleanup_servers(): one task per server, then gather.
ChatCleanupServers ==
    /\ pc \in {"handler", "finally"}
    /\ clpc' = [t \in Tasks |-> IF t \in Servers THEN "created" ELSE clpc[t]]
    /\ clsrv' = [t \in Tasks |-> IF t \in Servers THEN t ELSE clsrv[t]]
    /\ pc' = IF pc = "handler" THEN "handler_gather" ELSE "gather"
    /\ UNCHANGED <<srvVars, initVars, clexc, clfailed, execVars, listVars,
                   histVars, drvVars, entry, coerceVars, kbVars, llmVars, idx, all_tools, messages, llm_response,
                   result, outcome, nturns, replies, executed>>

\* A created task starts running server.cleanup(): the event loop runs the
\* tasks it has ready in the order of their creation, each up to its first
\* suspension, before it resumes a task that waits for the transport.
ClStart(t) ==
    /\ clpc[t] = "created"
    /\ \A u \in Tasks : u < t => clpc[u] # "created"
    /\ CleanupCall(t, clsrv[t])
    /\ UNCHANGED <<exit_stack, initVars, execVars, listVars, entered, exits,
                   initOk, drvVars, entry, coerceVars, kbVars, llmVars, chatVars>>

\* gather(..., return_exceptions=True) is over when every task is: the
\* handler returns into the finally block; the finally block ends start().
GatheredAny == \E t \in Servers : clpc[t] = "done"
Gathered == \A t \in Servers : clpc[t] = "done"

ChatGathered ==
    /\ pc \in {"handler_gather", "gather"}
    /\ Gathered
    /\ clpc' = [t \in Tasks |-> IF t \in Servers THEN "idle" ELSE clpc[t]]
    /\ IF pc = "handler_gather"
       THEN pc' = "finally" /\ outcome' = "returned"
       ELSE pc' = "done" /\ UNCHANGED outcome
    /\ UNCHANGED <<srvVars, initVars, clsrv, clexc, clfailed, execVars, listVars,
                   histVars, drvVars, entry, coerceVars, kbVars, llmVars, idx, all_tools, messages, llm_response,
                   result, nturns, replies, executed>>

\* ----------------------------------------------------- the Server driver
(* Drives one Server object the way its callers do: the main coroutine      *)
(* calls initialize (once, with or without asyncio.wait_for), list_tools,   *)
(* execute_tool and cleanup one after the other, while other tasks call     *)
(* cleanup() (an explicit shutdown) at any moment outside the try block of  *)
(* initialize.                                                              *)
DrvServer == CHOOSE s \in Servers : \A u \in Servers : s <= u
Delays == {DefaultDelay, DefaultDelay + 2}

MainQuiet ==
    /\ ipc \in {"idle", "ok", "raised"}
    /\ xpc \in {"idle", "returned", "raised"}
    /\ clpc[MainTask] \in {"idle", "done"}

DrvInitialize ==
    /\ MainQuiet /\ nops < MaxOps
    /\ ~started[DrvServer]
    /\ \E configured \in {"npx", "python"}, which \in {None, "/usr/bin/npx"},
          timeout \in BOOLEAN :
         InitializeCall(DrvServer, ResolveCommand(configured, which), timeout)
    /\ nops' = nops + 1
    /\ UNCHANGED <<srvVars, clVars, execVars, listVars, histVars, catalog, entry, coerceVars, kbVars, llmVars, chatVars>>

DrvListTools ==
    /\ MainQuiet /\ nops < MaxOps
    /\ lres' = list_tools(DrvServer)
    /\ ltransport' = ~NotInitialized(DrvServer)
    /\ lstate' = Standing(DrvServer)
    /\ nops' = nops + 1
    /\ UNCHANGED <<srvVars, initVars, clVars, execVars, histVars, catalog, entry, coerceVars, kbVars, llmVars, started,
                   chatVars>>

DrvExecuteTool ==
    /\ MainQuiet /\ nops < MaxOps
    /\ \E r \in 0..MaxRetries, d \in Delays :
         ExecuteToolCall(DrvServer, "lookup", <<>>, r, d)
    /\ nops' = nops + 1
    /\ UNCHANGED <<srvVars, initVars, clVars, listVars, histVars, catalog, entry, coerceVars, kbVars, llmVars, started,
                   chatVars>>

DrvCleanup(t) ==
    /\ nops < MaxOps
    /\ IF t = MainTask THEN MainQuiet
       ELSE clpc[t] \in {"idle", "done"} /\ ipc \notin {"spawn", "open", "handshake"}
    /\ CleanupCall(t, DrvServer)
    /\ nops' = nops + 1
    /\ UNCHANGED <<exit_stack, initVars, execVars, listVars, entered, exits,
                   initOk, catalog, entry, coerceVars, kbVars, llmVars, started, chatVars>>

\* ------------------------------------------- get_knowledge_base (server.py)
MaxItems == 3           \* entries of the knowledge base file

\* data/kb.json as open() and json.load() meet it: the exception open()
\* raises, the exception json.load() raises, or the value loaded.
KBFile(open, load, data) == [open |-> open, load |-> load, data |-> data]
NoFile == KBFile(None, None, JList(<<>>))

\* The entries of a knowledge base: with both fields, lacking one of them,
\* and one that is not an object.
Items ==
    {JDict([question |-> JStr("What is MCP?"), answer |-> JStr("A protocol.")]),
     JDict([question |-> JStr("Who are we?")]),
     JDict([answer |-> JStr("42.")]),
     JStr("note")}
KBLists == UNION {[1..n -> Items] : n \in 0..MaxItems}
KBData == {JList(l) : l \in KBLists} \cup {JDict([a |-> JInt(1)]), JInt(5)}

\* What json.load can raise: the text is not JSON (JSONDecodeError), the
\* bytes are not UTF-8 (UnicodeDecodeError, raised by the read), and the
\* ValueError that test_get_knowledge_base_invalid_json makes it raise.
LoadErrors == {"JSONDecodeError", "UnicodeDecodeError", "ValueError"}
OpenErrors == {"FileNotFoundError", "PermissionError"}
KBFiles ==
    {KBFile(e, None, JList(<<>>)) : e \in OpenErrors}
      \cup {KBFile(None, e, JList(<<>>)) : e \in LoadErrors}
      \cup {KBFile(None, None, d) : d \in KBData}

\* One piece of kb_text: the header, f"Q{i}: {question}\n", f"A{i}: {answer}\n"
\* or the content line of a file that is not a list.
Line(label, i, text) == [label |-> label, i |-> i, text |-> text]
Header ==
    Line("header", 0, "Here is the retrieved knowledge base for the user's company:")

\* item.get(key, default)
Get(item, key, default) == IF key \in DOMAIN item.v THEN item.v[key].v ELSE default

\* f"Item {i}"
ItemLabel(i) ==
    CASE i = 1 -> "Item 1" [] i = 2 -> "Item 2" [] i = 3 -> "Item 3"
      [] i = 4 -> "Item 4" [] OTHER -> "Item n"

\* str(item) and json.dumps(kb_data, indent=2) on the values met here.
str(v) ==
    CASE v.type = "str" -> v.v
      [] v = JInt(5) -> "5"
      [] OTHER -> "{...}"
json_dumps_indent(v) ==
    CASE v = JInt(5) -> "5"
      [] v = JDict([a |-> JInt(1)]) -> "{\n  \"a\": 1\n}"
      [] OTHER -> "..."

\* Lines 29-38: the two lines of every entry, from entry i on.
RECURSIVE FormatItems(_, _)
FormatItems(items, i) ==
    IF i > Len(items) THEN <<>>
    ELSE LET item == items[i]
             question == IF item.type = "dict"
                         THEN Get(item, "question", "Unknown question")
                         ELSE ItemLabel(i)
             answer == IF item.type = "dict"
                       THEN Get(item, "answer", "Unknown answer")
                       ELSE str(item)
         IN  <<Line("Q", i, question), Line("A", i, answer)>>
             \o FormatItems(items, i + 1)

\* Lines 26-42: kb_text.
kb_text(kb_data) ==
    IF kb_data.type = "list"
    THEN <<Header>> \o FormatItems(kb_data.v, 1)
    ELSE <<Header, Line("content", 0, json_dumps_indent(kb_data))>>

\* str(e) of the exceptions met here, in f"Error: {str(e)}".
ErrorText(e) ==
    CASE e = "PermissionError" -> "Error: [Errno 13] Permission denied: 'data/kb.json'"
      [] e = "UnicodeDecodeError" ->
           "Error: 'utf-8' codec can't decode byte 0xff in position 0: invalid start byte"
      [] e = "ValueError" -> "Error: "
      [] OTHER -> "Error: ..."

\* The handlers of lines 43-48, in their order: FileNotFoundError, then
\* json.JSONDecodeError, then every other Exception.
Message(text) == [kind |-> "message", text |-> text]
HandledAsInvalidJSON(e) == e = "JSONDecodeError"
OnError(e) ==
    IF e = "FileNotFoundError" THEN Message("Error: KB File not found")
    ELSE IF HandledAsInvalidJSON(e) THEN Message("Invalid JSON file")
    ELSE Message(ErrorText(e))

\* get_knowledge_base(): what it returns.
get_knowledge_base(file) ==
    IF file.open # None THEN [exc |-> None, val |-> OnError(file.open)]
    ELSE IF file.load # None THEN [exc |-> None, val |-> OnError(file.load)]
    ELSE [exc |-> None, val |-> [kind |-> "kb", lines |-> kb_text(file.data)]]

\* ------------------------------------------------------------- initial state
\* The Server objects as Server.__init__ leaves them, nothing running.
InitObjects ==
    /\ session = [s \in Servers |-> None]
    /\ exit_stack = [s \in Servers |-> <<>>]
    /\ cleanup_lock = [s \in Servers |-> FALSE]
    /\ ipc = "idle" /\ isrv = DrvServer /\ itimeout = FALSE /\ ierr = "none"
    /\ iclean = FALSE
    /\ clpc = [t \in Tasks |-> "idle"]
    /\ clsrv = [t \in Tasks |-> DrvServer]
    /\ clexc = [t \in Tasks |-> "none"]
    /\ clfailed = [t \in Tasks |-> FALSE]
    /\ xpc = "idle" /\ xsrv = DrvServer /\ xtool = None /\ xargs = <<>>
    /\ retries = DefaultRetries /\ delay = DefaultDelay /\ attempt = 0
    /\ xresult = [exc |-> None, val |-> NoValue]
    /\ xcalls = 0 /\ xsleeps = <<>> /\ xlast = "none" /\ xstate = "none"
    /\ lres = [exc |-> None, val |-> <<>>] /\ ltransport = FALSE
    /\ lstate = "none"
    /\ started = [s \in Servers |-> FALSE]
    /\ nops = 0
    /\ entered = [s \in Servers |-> {}]
    /\ exits = [s \in Servers |-> [r \in Resources |-> 0]]
    /\ initOk = [s \in Servers |-> FALSE]
    /\ released = [s \in Servers |-> FALSE]
    /\ cleanSinceOpen = [s \in Servers |-> FALSE]
    /\ idx = DrvServer /\ all_tools = <<>> /\ messages = <<>>
    /\ llm_response = None /\ result = RNone /\ outcome = "running"
    /\ nturns = 0 /\ replies = <<>> /\ executed = <<>>
    /\ llm_pc = "idle" /\ llm_messages = <<>> /\ llm_called = <<>>
    /\ payload = BuildPayload(<<>>, <<>>, <<>>)
    /\ llm_attempt = 0 /\ backoff = InitialBackoff
    /\ llm_result = [exc |-> None, val |-> None]
    /\ llm_posts = <<>> /\ llm_sleeps = <<>>

\* No coercion is run on its own.
CoerceOff ==
    /\ c_pc = "off" /\ c_schema = <<>> /\ c_raw_args = <<>> /\ c_args = <<>>

\* get_knowledge_base is not run.
KBOff ==
    /\ kb_pc = "off" /\ kb_file = NoFile /\ kb_result = [exc |-> None, val |-> None]

\* ChatSession.start() is entered; every provider exposes some catalog.
Init ==
    /\ InitObjects
    /\ catalog \in {c \in [Servers -> UNION {CatalogChoices(s) : s \in Servers}] :
                      \A s \in Servers : c[s] \in CatalogChoices(s)}
    /\ pc = "init"
    /\ entry \in {"start", "chat"}
    /\ llm_all_tools = <<>>
    /\ CoerceOff
    /\ KBOff

Next ==
    \/ ChatInitialize \/ ChatInitialized \/ ChatInitFailed
    \/ ISpawn \/ IOpen \/ IHandshake \/ IRaise
    \/ ChatInput \/ ChatModelFails \/ ChatFirstReply \/ ChatFinalReply
    \/ XLoop \/ XCallDone \/ XWake
    \/ ChatToolReturned \/ ChatToolRaised
    \/ ChatCleanupServers \/ ChatGathered
    \/ \E t \in Tasks : ClStart(t) \/ ClExit(t)

Spec == Init /\ [][Next]_vars

\* The Server driver alone: no chat session runs.
InitServer ==
    /\ InitObjects
    /\ catalog = [s \in Servers |-> <<ToolAt(s, "get_weather"), ToolAt(s, "lookup")>>]
    /\ pc = "off"
    /\ entry = "start"
    /\ llm_all_tools = <<>>
    /\ CoerceOff
    /\ KBOff

NextServer ==
    \/ DrvInitialize
    \/ DrvListTools
    \/ DrvExecuteTool
    \/ \E t \in Tasks : DrvCleanup(t)
    \/ ISpawn \/ IOpen \/ IHandshake \/ IRaise
    \/ \E t \in Tasks : ClAcquire(t) \/ ClExit(t)
    \/ XLoop \/ XCallDone \/ XWake

SpecServer == InitServer /\ [][NextServer]_vars

\* LLMClient.get_response alone, called again and again; self.all_tools is
\* empty, or holds what initialize_tools() put there.
InitLLM ==
    /\ InitObjects
    /\ catalog = [s \in Servers |-> <<ToolAt(s, "get_weather"), ToolAt(s, "lookup")>>]
    /\ pc = "off"
    /\ entry = "start"
    /\ llm_all_tools \in {<<>>, <<to_api_dict(Tool("lookup", "looks up", <<>>))>>}
    /\ CoerceOff
    /\ KBOff

NextLLM == LLMCall \/ LLMPost

SpecLLM == InitLLM /\ [][NextLLM]_vars

\* The coercion of lines 382-392 alone, on the arguments `q` and `extra` of
\* a directive and the schema of the tool found: `q` is declared with some
\* type, without a type or not at all, `extra` is never declared.
DeclaredTypes == {"object", "array", "string", "integer"}
Schemas ==
    {[type |-> "object", properties |-> [q |-> [type |-> d]]] : d \in DeclaredTypes}
      \cup {[type |-> "object", properties |-> [q |-> [description |-> "a query"]]],
            [type |-> "object", properties |-> <<>>],
            [type |-> "object"]}
ArgValues ==
    {JStr("{\"a\": 1}"), JStr("[1, 2, 3]"), JStr("not json"), JStr("5"), JInt(5),
     JDict([a |-> JInt(1)]), JList(<<JInt(1)>>)}

InitCoerce ==
    /\ InitObjects
    /\ catalog = [s \in Servers |-> <<ToolAt(s, "get_weather"), ToolAt(s, "lookup")>>]
    /\ pc = "off"
    /\ entry = "start"
    /\ llm_all_tools = <<>>
    /\ c_pc = "call"
    /\ c_schema \in Schemas
    /\ c_raw_args \in [{"q", "extra"} -> ArgValues]
    /\ c_args = <<>>
    /\ KBOff

\* Lines 383-392, then raw_args is what execute_tool is given.
CoerceArguments ==
    /\ c_pc = "call"
    /\ c_args' = Coerce(c_schema, c_raw_args)
    /\ c_pc' = "done"
    /\ UNCHANGED <<srvVars, initVars, clVars, execVars, listVars, histVars,
                   drvVars, chatVars, entry, llmVars, kbVars, c_schema, c_raw_args>>

NextCoerce == CoerceArguments

SpecCoerce == InitCoerce /\ [][NextCoerce]_vars

\* get_knowledge_base alone, on every file of KBFiles.
InitKB ==
    /\ InitObjects
    /\ catalog = [s \in Servers |-> <<ToolAt(s, "get_weather"), ToolAt(s, "lookup")>>]
    /\ pc = "off"
    /\ entry = "start"
    /\ llm_all_tools = <<>>
    /\ CoerceOff
    /\ kb_pc = "call"
    /\ kb_file \in KBFiles
    /\ kb_result = [exc |-> None, val |-> None]

KnowledgeBaseCall ==
    /\ kb_pc = "call"
    /\ kb_result' = get_knowledge_base(kb_file)
    /\ kb_pc' = "done"
    /\ UNCHANGED <<srvVars, initVars, clVars, execVars, listVars, histVars,
                   drvVars, chatVars, entry, llmVars, coerceVars, kb_file>>

NextKB == KnowledgeBaseCall

SpecKB == InitKB /\ [][NextKB]_vars

\* ================================================================ claims
\* The tool-directive test: the whole reply parses as one JSON object
\* holding the fields `tool` and `arguments`.
IsDirective(text) ==
    LET p == json_loads(text) IN
    /\ ~p.err
    /\ p.value.type = "dict"
    /\ {"tool", "arguments"} \subseteq DOMAIN p.value.v
DirectiveName(text) == json_loads(text).value.v.tool.v
DirectiveArgs(text) == json_loads(text).value.v.arguments.v

\* The providers exposing a name, and the first of them in the order of
\* registration.
Exposes(s, n) == \E j \in 1..Len(catalog[s]) : catalog[s][j].name = n
Providers(n) == {s \in Servers : Exposes(s, n)}
FirstProvider(n) == CHOOSE s \in Providers(n) : \A u \in Providers(n) : s <= u
SchemaAt(s, n) ==
    catalog[s][CHOOSE j \in 1..Len(catalog[s]) : catalog[s][j].name = n].inputSchema

\* The part of the log written in the current turn, after its user message.
TurnStart ==
    CHOOSE i \in 1..Len(messages) :
      /\ messages[i].role = "user"
      /\ \A j \in (i + 1)..Len(messages) : messages[j].role # "user"
TurnLog == SubSeq(messages, TurnStart + 1, Len(messages))
TurnEnded == pc = "input" /\ replies # <<>>

C2_ToolFailureNotFatal ==
    (executed # <<>> /\ xresult.exc # None /\ pc # "exec_wait") =>
      /\ outcome # "raised"
      /\ Len(TurnLog) >= 2
      /\ TurnLog[2].role = "system"

\* ---- C3.  When the first reply of a turn is a directive naming a tool
\* that no provider lists, no tool is executed, nothing is raised by its
\* processing, and the reply and the observation "No server found with
\* tool: <name>" are appended; the observation is the last message when the
\* model is asked again.
UnknownTool(text) == IsDirective(text) /\ Providers(DirectiveName(text)) = {}

C3_UnknownToolObserved ==
    (replies # <<>> /\ UnknownTool(replies[1])) =>
      /\ executed = <<>>
      /\ Len(TurnLog) >= 2
      /\ TurnLog[1] = Msg("assistant", RText(replies[1]))
      /\ TurnLog[2] = Msg("system", RNoServer(DirectiveName(replies[1])))
      /\ pc = "llm2" => Len(TurnLog) = 2

\* The model is about to be asked again after a directive for a tool that
\* no provider lists, while the providers list other tools.
C3_Witness ==
    /\ pc = "llm2"
    /\ replies = <<TxtUnknown>>
    /\ Providers("lookup") # {}
    /\ result = RNoServer("translate")

\* ---- C4.  Every tool executed for a directive runs on the first provider,
\* in registration order, among those exposing the name, and its arguments
\* are coerced with the schema that provider gives for the tool.
C4_FirstProviderWins ==
    \A k \in 1..Len(executed) :
      LET e == executed[k]
          text == replies[1]
      IN  /\ e.name = DirectiveName(text)
          /\ Providers(e.name) # {}
          /\ e.server = FirstProvider(e.name)
          /\ e.args = Coerce(SchemaAt(FirstProvider(e.name), e.name),
                             DirectiveArgs(text))
          /\ (xpc # "idle" \/ pc = "llm2") => xsrv = FirstProvider(e.name)

\* `lookup` is exposed by several providers, with different schemas, and
\* has been executed.
C4_Witness ==
    /\ pc = "llm2"
    /\ Len(executed) = 1
    /\ executed[1].name = "lookup"
    /\ Cardinality(Providers("lookup")) > 1
    /\ \E s \in Providers("lookup") :
         SchemaAt(s, "lookup") # SchemaAt(FirstProvider("lookup"), "lookup")

\* ---- C5.  A first reply that is not a directive (not JSON, or JSON that
\* is not an object with both fields) is the plain-text answer: no tool is
\* executed, nothing is raised, and the reply is appended as the last
\* assistant message of the turn.
C5_NonDirectiveIsPlainText ==
    (replies # <<>> /\ ~IsDirective(replies[1])) =>
      /\ executed = <<>>
      /\ outcome # "raised"
      /\ TurnEnded
      /\ TurnLog = <<Msg("assistant", RText(replies[1]))>>

\* ---- C11.  When initialize() of provider k fails during startup (by an
\* error, or by the timeout of the caller's wait_for), no provider after k
\* is initialized; when the handler's cleanup_servers() is over every
\* provider initialized before k has been through cleanup() and holds no
\* open context; and the startup ends by returning (nothing is raised to
\* its caller) with no context open on any provider.
StartupFailed ==
    messages = <<>> /\ pc \in {"handler", "handler_gather", "finally", "gather", "done"}
Closed(s) == exit_stack[s] = <<>> /\ \A r \in entered[s] : exits[s][r] = 1

C11_StartupFailureCleansUp ==
    StartupFailed =>
      /\ \A s \in Servers : s > idx => ~started[s] /\ entered[s] = {}
      /\ pc \in {"finally", "gather", "done"} =>
           \A s \in Servers : s < idx => released[s] /\ Closed(s)
      /\ pc = "done" =>
           /\ outcome = "returned"
           /\ \A s \in Servers : cleanSinceOpen[s] /\ Closed(s)

\* The second provider timed out under wait_for while its ClientSession was
\* being opened; the first had been initialized; the startup has ended.
C11_Witness ==
    /\ StartupFailed /\ pc = "done"
    /\ idx > DrvServer /\ initOk[DrvServer]
    /\ entry = "chat" /\ ierr = "CancelledError"
    /\ exits[idx]["stdio_client"] = 1 /\ exits[idx]["ClientSession"] = 0

\* C11 as stated: the failure is re-raised to the caller of the startup.
C11_FailureReRaised ==
    (StartupFailed /\ pc = "done") =>
      /\ outcome = "raised"
      /\ \A s \in Servers : Closed(s)

\* The requests of the running get_response call and their answers.
Sent == Len(llm_posts)
Status(i) == IF llm_posts[i].kind = "response" THEN llm_posts[i].status ELSE 0
All429(n) == \A i \in 1..n : Status(i) = 429
Finished == llm_pc \in {"returned", "raised"}

\* ---- C12.  For every k from 0 to 4: while the endpoint has answered 429
\* to all the k requests sent so far, get_response has waited k times and
\* sends the next request; when the next answer is a 200 it has sent k + 1
\* requests, waited k times, and ends with what the 200 reply maps to.
C12_RetriesEvery429 ==
    /\ (llm_pc # "idle" /\ Sent <= 4 /\ All429(Sent)) =>
         llm_pc = "post" /\ Len(llm_sleeps) = Sent
    /\ (Sent >= 1 /\ All429(Sent - 1) /\ Status(Sent) = 200) =>
         /\ Sent <= 5
         /\ Len(llm_sleeps) = Sent - 1
         /\ Finished
         /\ llm_result = MapReply(llm_posts[Sent].body)

\* ---- C13.  One get_response call never sends more than 5 requests; when
\* all 5 are answered with 429 the call raises and returns nothing.
C13_AtMostFiveRequests ==
    /\ Sent <= 5
    /\ (Sent = 5 /\ All429(5)) =>
         /\ llm_pc = "raised"
         /\ llm_result.exc # None /\ llm_result.val = None

\* Five requests, five 429 answers: "Max retries exceeded while calling LLM".
C13_Witness ==
    /\ Sent = 5 /\ All429(5)
    /\ llm_pc = "raised" /\ llm_result.exc = "RuntimeError"
    /\ Len(llm_sleeps) = 5

\* ---- C14.  A request that ends with a status that is neither a success
\* nor 429, or with a transport failure, is the last one of the call: the
\* failure is raised at once, without a further request and without a wait.
Fatal(i) == Status(i) \notin {200, 429}

C14_OtherFailuresPropagate ==
    \A i \in 1..Sent :
      Fatal(i) =>
        /\ i = Sent
        /\ llm_pc = "raised"
        /\ llm_result.exc = (IF llm_posts[i].kind = "response"
                             THEN "HTTPStatusError" ELSE llm_posts[i].kind)
        /\ llm_result.val = None
        /\ Len(llm_sleeps) = i - 1

\* A status 500 on the third request, after two 429 answers.
C14_Witness ==
    /\ Sent = 3 /\ All429(2) /\ Status(3) = 500
    /\ llm_pc = "raised" /\ llm_sleeps = <<InitialBackoff, 7>>

\* ---- C15.  A 200 reply is mapped as follows.  With at least one tool
\* call: when the arguments text of the first call parses as JSON the
\* result is the directive text built from that call alone (content and
\* further calls are ignored), and when it does not parse the call raises
\* the parse error and returns nothing.  Without a tool call: the content
\* when it is present; otherwise the call raises and returns nothing.
LastChoice == llm_posts[Sent].body.choices[1].message
Answered200 ==
    /\ Sent >= 1 /\ Status(Sent) = 200
    /\ "choices" \in DOMAIN llm_posts[Sent].body
FirstCall == LastChoice.tool_calls[1].function
Returned(text) == llm_pc = "returned" /\ llm_result = [exc |-> None, val |-> text]
Raised == llm_pc = "raised" /\ llm_result.exc # None /\ llm_result.val = None
ReturnedDirectiveOf(call) ==
    /\ llm_pc = "returned" /\ llm_result.exc = None
    /\ IsDirective(llm_result.val)
    /\ DirectiveName(llm_result.val) = call.name
    /\ json_loads(llm_result.val).value.v.arguments = json_loads(call.arguments).value
WithCalls == "tool_calls" \in DOMAIN LastChoice /\ Len(LastChoice.tool_calls) >= 1
WithContent == "content" \in DOMAIN LastChoice /\ LastChoice.content # None

C15_ReplyMapping ==
    Answered200 =>
      IF WithCalls
      THEN IF json_loads(FirstCall.arguments).err
           THEN Raised /\ llm_result.exc = "JSONDecodeError"
           ELSE ReturnedDirectiveOf(FirstCall)
      ELSE IF WithContent THEN Returned(LastChoice.content)
      ELSE Raised /\ llm_result.exc = "RuntimeError"

\* A reply with content and two tool calls came back as the directive of
\* the first call.
C15_Witness ==
    /\ Answered200 /\ LastChoice = ChoiceCalls
    /\ Returned(TxtLookup)

\* C15 as stated: every reply holding a tool call yields the directive text.
C15_ToolCallAlwaysDirective ==
    Answered200 =>
      IF WithCalls THEN ReturnedDirectiveOf(FirstCall)
      ELSE IF WithContent THEN Returned(LastChoice.content)
      ELSE Raised

\* ---- C16.  get_response leaves the caller's message list as it was at the
\* call, on every outcome; the request body holds that same list.
C16_LogUntouched ==
    llm_pc # "idle" =>
      /\ llm_messages = llm_called
      /\ payload.messages = llm_called

\* A call that retried twice and then failed, its two messages untouched.
C16_Witness ==
    /\ llm_pc = "raised" /\ Len(llm_sleeps) = 2
    /\ Len(llm_called) = 2 /\ llm_messages = llm_called

\* ---- C17.  Every argument whose declared type is object or array and
\* whose value is text is passed to the tool as the JSON parse of that text,
\* or, when the text does not parse, as the empty value of the declared type
\* ({} for object, [] for array); every other argument (another declared
\* type or none, a value that is not text, a name the schema does not
\* declare) is passed unchanged.
DeclaredType(a) ==
    IF /\ "properties" \in DOMAIN c_schema
       /\ a \in DOMAIN c_schema.properties
       /\ "type" \in DOMAIN c_schema.properties[a]
    THEN c_schema.properties[a].type
    ELSE None
EmptyOf(d) == IF d = "object" THEN JDict(<<>>) ELSE JList(<<>>)

C17_CoercionBySchema ==
    c_pc = "done" =>
      /\ DOMAIN c_args = DOMAIN c_raw_args
      /\ \A a \in DOMAIN c_raw_args :
           LET v == c_raw_args[a]
               d == DeclaredType(a)
           IN  IF d \in {"object", "array"} /\ v.type = "str"
               THEN IF json_loads(v.v).err
                    THEN c_args[a] = EmptyOf(d)
                    ELSE c_args[a] = json_loads(v.v).value
               ELSE c_args[a] = v

\* `q`, declared an array, came as text that does not parse and is passed as
\* []; `extra`, not declared, is passed as the text it was.
C17_Witness ==
    /\ c_pc = "done"
    /\ DeclaredType("q") = "array"
    /\ c_raw_args["q"] = JStr("not json") /\ c_args["q"] = JList(<<>>)
    /\ c_raw_args["extra"] = JStr("[1, 2, 3]") /\ c_args["extra"] = JStr("[1, 2, 3]")

\* ---- C18.  The message list of every model request is the leading
\* system message followed by at most the most recent N message pairs of
\* the log (here with N = 1), older messages being left out.
RequestMessages == BuildPayload(messages, all_tools, llm_all_tools).messages
Window(log, n) ==
    IF Len(log) - 1 <= 2 * n THEN log
    ELSE <<log[1]>> \o SubSeq(log, Len(log) - 2 * n + 1, Len(log))

C18_PromptIsWindow ==
    pc \in {"llm1", "llm2"} => RequestMessages = Window(messages, 1)

\* ---- C19.  When a turn ends with an error (the model request fails, the
\* processing of the reply raises, the tool fails), start() goes through
\* its finally block: a cleanup() is started on every provider, each of
\* them can run to its end, and when start() is over every provider has
\* been through cleanup() and holds no open context.
C19_FatalTurnStillCleansUp ==
    outcome = "raised" =>
      /\ pc \in {"finally", "gather", "done"}
      /\ pc = "gather" =>
           \A s \in Servers :
             /\ clsrv[s] = s
             /\ clpc[s] \in {"created", "aclose", "done"}
             /\ clpc[s] = "aclose" => exit_stack[s] # <<>>
      /\ pc = "done" =>
           \A s \in Servers : cleanSinceOpen[s] /\ released[s] /\ Closed(s)

\* The first model request of a turn failed; start() is over and both
\* contexts of every provider have been exited.
C19_Witness ==
    /\ pc = "done" /\ outcome = "raised"
    /\ nturns >= 1 /\ replies = <<>>
    /\ \A s \in Servers : \A r \in Resources : exits[s][r] = 1

\* ---- C20.  cleanup_servers() starts a cleanup() for every provider, all
\* of them running before it waits; no cleanup() raises into its task; and
\* when the wait is over every provider has been through cleanup() and
\* holds no open context, also when the release of another provider's
\* contexts raised.  The wait itself raises nothing: a startup that failed
\* still ends by returning.
AfterGather == pc = "done" \/ (pc = "finally" /\ StartupFailed)

C20_CleanupServersBestEffort ==
    /\ pc \in {"handler_gather", "gather"} =>
         \A s \in Servers : clsrv[s] = s /\ clpc[s] \in {"created", "aclose", "done"}
    /\ \A t \in Tasks : ~clfailed[t]
    /\ AfterGather =>
         \A s \in Servers : cleanSinceOpen[s] /\ released[s] /\ Closed(s)
    /\ (pc = "done" /\ StartupFailed) => outcome = "returned"

\* The cleanup of the first provider is over and its aclose() raised, while
\* the cleanup of the last provider, started with it, is still releasing.
C20_Witness ==
    /\ pc = "gather"
    /\ clpc[DrvServer] = "done" /\ clexc[DrvServer] = "Exception"
    /\ clpc[NServers] = "aclose" /\ clexc[NServers] = "none"
    /\ exits[NServers]["ClientSession"] = 1 /\ exits[NServers]["stdio_client"] = 0

\* ---- C21.  For one user input at most 2 model requests are made and at
\* most 1 tool is executed, with at most `retries` call_tool invocations,
\* also when every reply of the model is a directive: the first request is
\* made with no reply taken yet, the second with exactly one, and no request
\* follows the second reply.
ModelRequests == Len(replies) + (IF pc \in {"llm1", "llm2"} THEN 1 ELSE 0)

C21_TurnIsBounded ==
    /\ ModelRequests <= 2
    /\ Len(executed) <= 1
    /\ xcalls <= DefaultRetries
    /\ pc = "llm1" => replies = <<>> /\ executed = <<>>
    /\ pc = "exec_wait" => Len(replies) = 1 /\ Len(executed) = 1
    /\ pc = "llm2" => Len(replies) = 1

\* Both replies of the turn were directives and the tool needed its retry:
\* the turn is over, input() is reached again.
C21_Witness ==
    /\ pc = "input" /\ nturns >= 1
    /\ replies = <<TxtLookup, TxtLookup>>
    /\ Len(executed) = 1 /\ xcalls = DefaultRetries

\* ---- C22.  The body of every model request of a session holds the fields
\* `tools` and `tool_choice` exactly when the providers have registered at
\* least one tool (the caller's tool list is not empty), and then
\* tool_choice is "auto".
RequestPayload == BuildPayload(messages, all_tools, llm_all_tools)

C22_ToolsSentWhenRegistered ==
    pc \in {"llm1", "llm2"} =>
      IF all_tools # <<>>
      THEN /\ {"tools", "tool_choice"} \subseteq DOMAIN RequestPayload
           /\ RequestPayload.tool_choice = "auto"
      ELSE {"tools", "tool_choice"} \cap DOMAIN RequestPayload = {}

\* ---- C23.  get_knowledge_base() raises nothing; it returns "Error: KB
\* File not found" when the file is not found, "Invalid JSON file" whenever
\* json.load fails on the file, and the formatted knowledge base when the
\* file was opened and loaded.
C23_KnowledgeBaseErrors ==
    kb_pc = "done" =>
      /\ kb_result.exc = None
      /\ kb_file.open = "FileNotFoundError" =>
           kb_result.val = Message("Error: KB File not found")
      /\ (kb_file.open = None /\ kb_file.load # None) =>
           kb_result.val = Message("Invalid JSON file")
      /\ (kb_file.open = None /\ kb_file.load = None) =>
           kb_result.val = [kind |-> "kb", lines |-> kb_text(kb_file.data)]

\* ---- C24.  In one get_response call every 429 reply is followed by a
\* wait: of the seconds its retry-after hint gives when it has one, and
\* otherwise of the backoff counter, 2 seconds at the first attempt and
\* twice as much at every further attempt (2, 4, 8, 16, ...).
RECURSIVE BackoffAt(_)
BackoffAt(i) == IF i <= 1 THEN 2 ELSE 2 * BackoffAt(i - 1)
\* The seconds a hint asks for: a count of seconds, or the time left until
\* the date it names (one minute after the reply).
HintSeconds(h) == IF h = "7" THEN 7 ELSE 60

C24_WaitIsHintOrBackoff ==
    \A i \in 1..Sent :
      Status(i) = 429 =>
        /\ i <= Len(llm_sleeps)
        /\ llm_sleeps[i] = (IF llm_posts[i].retry_after = None
                            THEN BackoffAt(i)
                            ELSE HintSeconds(llm_posts[i].retry_after))

\* ---- C25.  Once a first reply that is a directive has been processed
\* (the tool was executed, or no provider lists it), the log of the turn
\* holds the assistant message with the directive and right after it the
\* observation; when the next model request is made these are the last two
\* messages and the request's message list ends with the observation.
C25_ObservationBeforeNextRequest ==
    (replies # <<>> /\ IsDirective(replies[1]) /\ pc # "exec_wait") =>
      /\ Len(TurnLog) >= 2
      /\ TurnLog[1] = Msg("assistant", RText(replies[1]))
      /\ TurnLog[2].role = "system"
      /\ TurnLog[2].content.kind \in {"tool_result", "no_server"}
      /\ pc = "llm2" =>
           /\ Len(TurnLog) = 2
           /\ RequestMessages[Len(RequestMessages)] = TurnLog[2]

\* ---- C26.  The log is append-only: from its creation on its first
\* message is the system prompt, and every step, a failing turn included,
\* leaves the messages it held in place and unchanged (the log before the
\* step is a prefix of the log after it).
IsPrefix(a, b) == Len(a) <= Len(b) /\ SubSeq(b, 1, Len(a)) = a

C26_LogAppendOnly ==
    /\ [](messages # <<>> =>
            messages[1] = Msg("system", [kind |-> "prompt", tools |-> Names(all_tools)]))
    /\ [][IsPrefix(messages, messages')]_vars

\* The second model request of a turn failed: the log still holds the system
\* prompt, the user message, the directive and the observation.
C26_Witness ==
    /\ outcome = "raised" /\ pc = "done"
    /\ Len(replies) = 1 /\ Len(messages) = 4
    /\ messages[2].role = "user" /\ messages[4] = Msg("system", result)

\* ---- C27.  For every value of `retries`, 0 included, an execute_tool
\* called on an initialized session that returns has invoked call_tool at
\* least once and returns the result of its last invocation.
C27_ReturnsOnlyAfterCall ==
    (xstate = "init" /\ xpc = "returned") =>
      /\ xcalls >= 1
      /\ xlast = "ok"
      /\ xresult = [exc |-> None, val |-> CallResult(xsrv, xtool, xargs)]

\* ---- C28.  After the coercion every argument declared `object` holds an
\* object and every argument declared `array` holds a list: none of them
\* holds text or a value of another type.
C28_DeclaredTypeAfterCoercion ==
    c_pc = "done" =>
      \A a \in DOMAIN c_args :
        /\ DeclaredType(a) = "object" => c_args[a].type = "dict"
        /\ DeclaredType(a) = "array" => c_args[a].type = "list"

\* ---- C29.  An error raised while a turn is processed ends the session:
\* from then on start() is in its finally block or over, no user input is
\* read, no message is appended, no provider is initialized, listed or asked
\* to run a tool, and cleanup() has returned on every provider when start()
\* is over.  input() is reached again only with no error raised and, after a
\* turn, with that turn completed by an appended assistant reply.
SessionOver == pc \in {"finally", "gather", "done"}

C29_ErrorEndsSession ==
    /\ [](outcome = "raised" =>
            /\ SessionOver
            /\ xpc = "idle" /\ ipc = "idle"
            /\ pc = "done" => \A s \in Servers : released[s])
    /\ []((pc = "input" /\ nturns >= 1) =>
            /\ outcome = "running"
            /\ replies # <<>>
            /\ messages[Len(messages)] = Msg("assistant", RText(replies[Len(replies)])))
    /\ [][outcome = "raised" =>
            /\ outcome' = "raised" /\ SessionOver'
            /\ UNCHANGED <<nturns, messages, replies, executed, execVars,
                           listVars, initVars>>]_vars

\* The tool of the turn raised after its retry; start() is over, no reply
\* was appended, every provider has been cleaned up.
C29_Witness ==
    /\ pc = "done" /\ outcome = "raised"
    /\ nturns = 1 /\ Len(executed) = 1 /\ xlast = "Exception"
    /\ Len(messages) = 2
    /\ \A s \in Servers : released[s] /\ exit_stack[s] = <<>>

\* ---- C6.  execute_tool on an initialized session makes the initial call
\* and retries every failed call, up to `retries` retries (at most
\* retries + 1 calls), sleeping the same `delay` before every retry; it
\* returns the result of the first successful call, and when the last retry
\* fails it raises that last failure.
C6_RetriesThenFail ==
    xstate = "init" =>
      /\ xcalls <= retries + 1
      /\ \A i \in 1..Len(xsleeps) : xsleeps[i] = delay
      /\ xpc = "returned" =>
           /\ xcalls >= 1 /\ xlast = "ok"
           /\ xresult.val = CallResult(xsrv, xtool, xargs)
           /\ Len(xsleeps) = xcalls - 1
      /\ xpc = "raised" =>
           /\ xcalls = retries + 1
           /\ Len(xsleeps) = retries
           /\ xresult.exc = xlast

\* ---- C7.  The cleanup() invocations on one server, one after another or
\* concurrent (initialize's handler, other tasks), are serialized by the
\* server's lock, none of them raises, no transport context is exited twice,
\* and once a cleanup() begun after the last context was entered has
\* returned, every context entered has been exited exactly once.
InAclose(s) == {t \in Tasks : clpc[t] = "aclose" /\ clsrv[t] = s}
CleanupRunning(s) == \E t \in Tasks : clsrv[t] = s /\ clpc[t] \in {"lock", "aclose"}

C7_CleanupSerializedOnce ==
    \A s \in Servers :
      /\ Cardinality(InAclose(s)) <= 1
      /\ cleanup_lock[s] <=> InAclose(s) # {}
      /\ \A t \in Tasks : ~clfailed[t]
      /\ \A r \in Resources :
           /\ exits[s][r] <= 1
           /\ exits[s][r] = 1 => r \in entered[s]
      /\ (cleanSinceOpen[s] /\ ~CleanupRunning(s)) =>
           /\ exit_stack[s] = <<>>
           /\ \A r \in entered[s] : exits[s][r] = 1

\* Two cleanup() calls on one server at once: another task waits for the
\* lock while the one of initialize's handler is releasing the transport.
C7_Witness ==
    \E t \in Tasks \ {MainTask} :
      /\ ipc = "cleanup" /\ clpc[MainTask] = "aclose"
      /\ clpc[t] = "lock" /\ clsrv[t] = isrv
      /\ exits[isrv]["stdio_client"] = 0
      /\ exit_stack[isrv] = <<"stdio_client">>
      /\ exits[isrv]["ClientSession"] = 1

\* ---- C8.  self.session is None in every state before an initialize() has
\* succeeded and in every state after a cleanup() has returned, whatever
\* happened while the contexts were exited.
C8_HandleNoneOutsideInit ==
    \A s \in Servers : Standing(s) = "uninit" => session[s] = None

\* ---- C9.  Whenever initialize() fails, at whichever step, its cleanup()
\* has run to completion before the failure reaches the caller, the handle
\* is None and no context entered by that initialize is still open.
C9_InitFailureCleansUp ==
    ipc = "raised" =>
      /\ iclean
      /\ session[isrv] = None
      /\ exit_stack[isrv] = <<>>

\* ---- C10.  list_tools() and execute_tool() on a server whose initialize()
\* has not succeeded (never called, failed, or followed by cleanup) raise
\* the not-initialized RuntimeError without a transport call; list_tools()
\* on an initialized server returns the provider's tool descriptors.
C10_NotInitializedGuard ==
    /\ lstate = "uninit" => lres.exc = "RuntimeError" /\ ~ltransport
    /\ (xstate = "uninit" /\ xpc \in {"returned", "raised"}) =>
         xpc = "raised" /\ xresult.exc = "RuntimeError" /\ xcalls = 0
    /\ lstate = "init" =>
         /\ lres.exc = None
         /\ Len(lres.val) = Len(catalog[DrvServer])
         /\ \A i \in 1..Len(lres.val) :
              /\ lres.val[i].name = catalog[DrvServer][i].name
              /\ lres.val[i].input_schema = catalog[DrvServer][i].inputSchema

====
